---- MODULE Spec2Model ----
(***************************************************************************)
(* PythonExecutor (src/Python_tool/PythonExecutor_secure.py): the engine   *)
(* instance a caller keeps, the instances execute_python_code makes, and   *)
(* for every execute call a supervisor (the caller's thread inside         *)
(* execute) and a worker thread running _execute_code; chat_loop           *)
(* (src/LM_tools.py), the host that calls execute_python_code as a tool.   *)
(*                                                                         *)
(*   Spec      one caller, execute and reset_state on one instance         *)
(*   SpecEntry one caller, execute_python_code                             *)
(*   SpecConc  threads that call execute at the same time                  *)
(*   SpecNorm  lines 131-133 on result values of every shape               *)
(*   SpecChat  chat_loop: requests, tool calls, the transcript             *)
(*                                                                         *)
(* A source text is modelled as the sequence of the pieces between its     *)
(* ';' and newline characters, a piece of white space being "blank"; a     *)
(* Python value as a record [kind, elems]; the text written to a stream    *)
(* as the sequence of the call numbers of the writers.                     *)
(***************************************************************************)
EXTENDS Integers, Sequences, FiniteSets, TLC

(* ------------------------------ bounds -------------------------------- *)

\* number of execute calls the caller issues
MaxCalls == 2

\* threading.TIMEOUT_MAX scaled to the model: the largest timeout the lock
\* wait behind Thread.join accepts; a larger one raises OverflowError
TIMEOUT_MAX == 1

Calls == 1..MaxCalls

\* timeout arguments of execute: 0 stands for None and every value <= 0
Timeouts == 0..(TIMEOUT_MAX + 1)

(* --------------------------- Python values ---------------------------- *)

PyNone == [kind |-> "none", elems |-> <<>>]

PyInt(n) == [kind |-> "int", elems |-> <<n>>]

\* containers hold their items as a sequence of values; a set in the order
\* its iteration yields them, a dict as a sequence of <<key, value>> pairs
PySet(s) == [kind |-> "set", elems |-> s]

PyList(s) == [kind |-> "list", elems |-> s]

PyTuple(s) == [kind |-> "tuple", elems |-> s]

PyDict(s) == [kind |-> "dict", elems |-> s]

\* str and bytes hold their code points and bytes
PyStr(s) == [kind |-> "str", elems |-> s]

PyBytes(s) == [kind |-> "bytes", elems |-> s]

PyComplex(re, im) == [kind |-> "complex", elems |-> <<re, im>>]

\* numpy.ndarray of integers, numpy.int64
PyArray(s) == [kind |-> "ndarray", elems |-> s]

PyGeneric(n) == [kind |-> "generic", elems |-> <<n>>]

\* an instance of any other class; s is the text str() gives for it
PyObject(s) == [kind |-> "object", elems |-> s]

\* stands for "the call raised" where a value is expected
Raises == [kind |-> "raise", elems |-> <<>>]

\* marks a name that has no binding in a namespace
Undef == [kind |-> "undef", elems |-> <<>>]

Names == {"x"}

EmptyNamespace == [n \in Names |-> Undef]

(* ------------------------------ sources ------------------------------- *)

Seg(op, name, val) == [op |-> op, name |-> name, val |-> val]

\* x = 5
SrcAssign == << Seg("assign", "x", PyInt(5)) >>

\* x = 7; print('b'); raise SystemExit
SrcExit == << Seg("assign", "x", PyInt(7)), Seg("print", "", PyNone),
              Seg("raise", "SystemExit", PyNone) >>

\* x
SrcName == << Seg("expr", "x", PyNone) >>

\* print('hello'); 2+2 followed by a newline
SrcHello == << Seg("print", "", PyNone), Seg("const", "", PyInt(4)),
               Seg("blank", "", PyNone) >>

\* a source of white space only
SrcBlank == << Seg("blank", "", PyNone) >>

\* x = 5; print('a'); import os
SrcImportOs == << Seg("assign", "x", PyInt(5)), Seg("print", "", PyNone),
                  Seg("import", "os", PyNone) >>

\* print(open('f'))
SrcOpen == << Seg("call", "open", PyNone) >>

\* x = 5; print('a'); x = = 1
SrcSyntax == << Seg("assign", "x", PyInt(5)), Seg("print", "", PyNone),
                Seg("bad", "", PyNone) >>

\* x = 7; print('a'); 1/0
SrcZeroDiv == << Seg("assign", "x", PyInt(7)), Seg("print", "", PyNone),
                 Seg("raise", "ZeroDivisionError", PyNone) >>

\* x = 7; print('a'); while True: pass
SrcLoop == << Seg("assign", "x", PyInt(7)), Seg("print", "", PyNone),
              Seg("loop", "", PyNone) >>

\* x = 5; print(x)
SrcPrintLast == << Seg("assign", "x", PyInt(5)), Seg("print", "", PyNone) >>

\* {1, 2, 3}
SrcSet == << Seg("const", "", PySet(<<PyInt(1), PyInt(2), PyInt(3)>>)) >>

\* b'\xff'
SrcBytes == << Seg("const", "", PyBytes(<<255>>)) >>

\* del x
SrcDel == << Seg("del", "x", PyNone) >>

\* def f():
\*     while True: pass
\* while True:
\*     try: f()
\*     except KeyboardInterrupt: pass
SrcSwallow == << Seg("loopcatch", "", PyNone) >>

Sources == { SrcAssign, SrcExit, SrcName, SrcHello, SrcImportOs, SrcOpen,
             SrcSyntax, SrcZeroDiv, SrcLoop, SrcPrintLast, SrcBlank,
             SrcSet, SrcBytes, SrcDel, SrcSwallow }

NoSource == << >>

(* -------------------------- security screener ------------------------- *)

blocked_imports == {"os", "sys", "subprocess", "shutil"}

blocked_keywords == {"exec", "eval", "open", "os.system", "subprocess",
                     "ctypes", "importlib", "input"}

\* The identifiers of a segment are its name field; the substring test
\* `keyword in code` is taken at the granularity of identifiers.
_is_code_safe(src) ==
    /\ \A i \in 1..Len(src) :
          ~(src[i].op = "import" /\ src[i].name \in blocked_imports)
    /\ \A i \in 1..Len(src) : src[i].name \notin blocked_keywords

(* ------------------------- compile and evaluate ----------------------- *)

\* compile(code, '<string>', 'exec') raises SyntaxError
CompileFails(src) == \E i \in 1..Len(src) : src[i].op = "bad"

\* lines = [line.strip() for line in re.split(r'[;\n]', code) if line.strip()]
NonBlank(seg) == seg.op # "blank"

lines(src) == SelectSeq(src, NonBlank)

\* compile(lines[-1], '<string>', 'eval') succeeds
IsExpression(seg) == seg.op \in {"expr", "const", "print", "call"}

\* exceptions that are not subclasses of Exception
BaseOnly == {"SystemExit", "KeyboardInterrupt", "GeneratorExit"}

(* ------------------------------- results ------------------------------ *)

NoError == "None"

SecurityError == "SecurityError: Unsafe code detected"

WorkerTimedOut == "Execution timed out"

TimedOutAfter == "Execution timed out after N seconds"

NoResult == "Execution failed with no result"

NewResult == [success |-> FALSE, output |-> <<>>, error |-> NoError,
              result |-> PyNone]

TimeoutResult == [success |-> FALSE, output |-> <<>>, error |-> TimedOutAfter,
                  result |-> PyNone]

FallbackResult == [success |-> FALSE, output |-> <<>>, error |-> NoResult,
                   result |-> PyNone]

\* json.dumps(data) succeeds on the value: primitives, lists and tuples of
\* such values, dicts whose keys are primitives
RECURSIVE JsonValue(_)
JsonValue(v) ==
    CASE v.kind \in {"none", "int", "str"} -> TRUE
      [] v.kind \in {"list", "tuple"} ->
           \A i \in 1..Len(v.elems) : JsonValue(v.elems[i])
      [] v.kind = "dict" ->
           \A i \in 1..Len(v.elems) :
               /\ v.elems[i][1].kind \in {"none", "int", "str"}
               /\ JsonValue(v.elems[i][2])
      [] OTHER -> FALSE

is_json_serializable(res) == JsonValue(res.result)

\* a list or a dict is not hashable and cannot be a key
Unhashable(v) == v.kind \in {"list", "dict"}

\* make_json_serializable on a value, branch by branch; Raises when a branch
\* raises (UnicodeDecodeError from decode, TypeError from an unhashable key)
\* a normaliser that leaves every value as it is
KeepValue(v) == v

RECURSIVE make_json_serializable_value(_)
make_json_serializable_value(v) ==
    CASE v.kind = "ndarray" -> PyList([i \in 1..Len(v.elems) |-> PyInt(v.elems[i])])
      [] v.kind = "set" -> PyList(v.elems)
      [] v.kind = "bytes" ->
           IF \E i \in 1..Len(v.elems) : v.elems[i] > 127
           THEN Raises ELSE PyStr(v.elems)
      [] v.kind = "complex" -> PyList(<<PyInt(v.elems[1]), PyInt(v.elems[2])>>)
      [] v.kind = "generic" -> PyInt(v.elems[1])
      [] v.kind = "dict" ->
           LET kv == [i \in 1..Len(v.elems) |->
                        << make_json_serializable_value(v.elems[i][1]),
                           make_json_serializable_value(v.elems[i][2]) >>]
           IN  IF \E i \in 1..Len(kv) :
                     kv[i][1] = Raises \/ kv[i][2] = Raises \/ Unhashable(kv[i][1])
               THEN Raises ELSE PyDict(kv)
      [] v.kind \in {"list", "tuple"} ->
           LET items == [i \in 1..Len(v.elems) |->
                           make_json_serializable_value(v.elems[i])]
           IN  IF \E i \in 1..Len(items) : items[i] = Raises
               THEN Raises ELSE PyList(items)
      [] v.kind \in {"none", "int", "str"} -> v
      [] OTHER -> PyStr(v.elems)

\* the dict branch on the result dict: the four keys are strings, the other
\* three values are primitives and pass through
make_json_serializable(res) ==
    [res EXCEPT !.result = make_json_serializable_value(res.result)]

(* -------------------------------- state ------------------------------- *)

VARIABLES
    global_state,      \* self.global_state: name -> value
    execution_result,  \* self.execution_result: <<>> is None, else <<dict>>
    sys_stdout,        \* sys.stdout and sys.stderr: 0 the original streams,
                       \* c the StringIO pair of call c
    out,               \* out[c]: the text in the capture buffer of call c
    sup,               \* sup[c]: the frame of execute for call c
    worker,            \* worker[c]: the thread running _execute_code of call c
    executor,          \* executor[c]: the instance execute_python_code makes
                       \* for call c (its global_state, execution_result)
    ncalls,            \* number of execute calls issued so far
    hist,              \* hist[c]: history of call c (not program state)
    caller,            \* history kept across calls (not program state)
    chat               \* the frame of chat_loop (src/LM_tools.py)

vars == << global_state, execution_result, sys_stdout, out, sup, worker,
           executor, ncalls, hist, caller, chat >>

\* the variables of the engine and of its calls
engine == << global_state, execution_result, sys_stdout, out, sup, worker,
             executor, ncalls, hist, caller >>

\* own: self is the instance made for this call (executor[c]), not the
\* instance the caller keeps (global_state, execution_result)
BlankSup == [pc |-> "none", code |-> NoSource, timeout |-> 0, ret |-> <<>>,
             own |-> FALSE]

BlankWorker == [pc |-> "none", code |-> NoSource, ip |-> 0, exec_globals |-> EmptyNamespace,
                result |-> NewResult, old_out |-> 0, async_exc |-> FALSE,
                own |-> FALSE]

\* an instance that is born with x bound
BoundExecutor == [global_state |-> [n \in Names |-> PyInt(5)],
                  execution_result |-> <<>>]

\* PythonExecutor.__init__
NewExecutor == [global_state |-> EmptyNamespace, execution_result |-> <<>>]

\* a thread that has ended: its frame is gone
DeadWorker == [BlankWorker EXCEPT !.pc = "dead"]

\* pre_state: global_state when the call was issued; wrote: what the exec of
\* the source wrote; reset_names: the names reset_state dropped right before
\* the call; overlap: a worker of an earlier call was alive during the call;
\* swallowed: the source caught the KeyboardInterrupt sent to its worker;
\* undelivered: raise_exception found no thread to interrupt, or more than
\* one; stored: the result the worker of the call assigned to
\* execution_result; pre_stdout: sys.stdout when the call was issued;
\* bound_before: for a call on an instance of its own, the names the calls
\* before it had bound, all returning success
BlankHist == [pre_state |-> EmptyNamespace, wrote |-> <<>>,
              reset_names |-> {}, overlap |-> FALSE, swallowed |-> FALSE,
              undelivered |-> FALSE, stored |-> <<>>, pre_stdout |-> 0,
              bound_before |-> {}]

\* assigned: per name the value most recently assigned by a source whose call
\* returned success; all_ok: every call so far returned success and there was
\* no reset; last_reset: the names dropped by reset_state if no call followed
InitCaller == [assigned |-> EmptyNamespace, all_ok |-> TRUE, last_reset |-> {}]

\* chat_loop at line 128 for the first time: messages = [], no request sent;
\* pc is the line chat_loop is at, tool_calls and i the list and the position
\* of the for loop of line 164
InitChat == [pc |-> "input", messages |-> <<>>, tool_calls |-> <<>>, i |-> 0,
             requests |-> 0]

Init ==
    /\ global_state = EmptyNamespace
    /\ execution_result = <<>>
    /\ sys_stdout = 0
    /\ out = [c \in Calls |-> <<>>]
    /\ sup = [c \in Calls |-> BlankSup]
    /\ worker = [c \in Calls |-> BlankWorker]
    /\ executor = [c \in Calls |-> NewExecutor]
    /\ ncalls = 0
    /\ hist = [c \in Calls |-> BlankHist]
    /\ caller = InitCaller
    /\ chat = InitChat

is_alive(c) == worker[c].pc \notin {"none", "dead"}

Ended(c) == sup[c].pc \in {"returned", "raised"}

\* execute for call c has been entered and has not ended
InFlight(c) == sup[c].pc \notin {"none", "returned", "raised"}

\* the caller is between two calls
Idle == \A c \in Calls : sup[c].pc \in {"none", "returned", "raised"}

\* the value a source assigns last to a name, Undef if it assigns none
RECURSIVE LastAssign(_, _, _)
LastAssign(src, n, i) ==
    IF i = 0 THEN Undef
    ELSE IF src[i].op = "assign" /\ src[i].name = n THEN src[i].val
    ELSE LastAssign(src, n, i - 1)

(* ------------------------------- caller ------------------------------- *)

\* float('inf'): larger than every timeout the lock wait accepts
inf == TIMEOUT_MAX + 2

\* Frames of calls that have ended and of threads that have ended are
\* unreachable for the program; the next operation of the caller drops them.
DropSup == [c \in Calls |-> IF Ended(c) THEN BlankSup ELSE sup[c]]

DropWorker == [c \in Calls |-> IF is_alive(c) THEN worker[c] ELSE BlankWorker]

DropHist == [c \in Calls |-> IF InFlight(c) THEN hist[c] ELSE BlankHist]

\* an instance made for a call is unreachable once the call and its worker
\* have ended
DropExecutor == [c \in Calls |-> IF InFlight(c) \/ is_alive(c)
                                  THEN executor[c] ELSE NewExecutor]

\* the history of a call is kept as long as the caller holds its outcome
Note(c, h) == IF sup[c].pc = "none" THEN hist ELSE [hist EXCEPT ![c] = h]

DropOut == [c \in Calls |-> IF is_alive(c) THEN out[c] ELSE <<>>]

\* execute, up to execution_thread.start(), on the caller's instance or
\* (own) on an instance made for the call
Begin(c, src, t, own) ==
    /\ c = ncalls + 1
    /\ ncalls' = c
    /\ sup' = [DropSup EXCEPT ![c] =
                  [pc |-> "join", code |-> src,
                   timeout |-> IF t <= 0 THEN inf ELSE t, ret |-> <<>>,
                   own |-> own]]
    /\ worker' = [DropWorker EXCEPT ![c] =
                    [BlankWorker EXCEPT !.pc = "start", !.code = src, !.own = own]]
    /\ executor' = [DropExecutor EXCEPT ![c] = NewExecutor]
    /\ hist' = [DropHist EXCEPT ![c] =
                  [pre_state |-> IF own THEN EmptyNamespace ELSE global_state,
                   wrote |-> <<>>,
                   reset_names |-> caller.last_reset,
                   overlap |-> \E d \in Calls : is_alive(d),
                   swallowed |-> FALSE, undelivered |-> FALSE,
                   stored |-> <<>>, pre_stdout |-> sys_stdout,
                   bound_before |->
                       IF own THEN {n \in Names : caller.assigned[n] # Undef}
                       ELSE {}]]
    /\ out' = DropOut
    /\ caller' = [caller EXCEPT !.last_reset = {}]
    /\ UNCHANGED << global_state, execution_result, sys_stdout >>

\* execute called on the caller's instance after the previous call has ended
S_Start(c, src, t) == Idle /\ Begin(c, src, t, FALSE) /\ UNCHANGED chat

\* execute_python_code: a new instance, then execute on it
execute_python_code(c, src, t) == Idle /\ Begin(c, src, t, TRUE)

\* execute_python_code called by a host that is not chat_loop
E_Call(c, src, t) == execute_python_code(c, src, t) /\ UNCHANGED chat

\* execute called by a thread of the host while a call of another thread may
\* be in progress, on the instance the threads share or on one of its own
T_Start(c, src, t, own) == Begin(c, src, t, own) /\ UNCHANGED chat

reset_state ==
    /\ Idle
    /\ global_state' = EmptyNamespace
    /\ sup' = DropSup
    /\ worker' = DropWorker
    /\ executor' = DropExecutor
    /\ hist' = DropHist
    /\ out' = DropOut
    /\ caller' = [caller EXCEPT
                    !.assigned = EmptyNamespace,
                    !.last_reset = {n \in Names : global_state[n] # Undef}]
    /\ UNCHANGED << execution_result, sys_stdout, ncalls, chat >>

\* execute returns r to the caller
Return(c, r) ==
    /\ sup' = [sup EXCEPT ![c].pc = "returned", ![c].ret = <<r>>]
    /\ caller' =
         IF r.success /\ caller.all_ok
         THEN [caller EXCEPT !.assigned =
                 [n \in Names |->
                    IF LastAssign(sup[c].code, n, Len(sup[c].code)) # Undef
                    THEN LastAssign(sup[c].code, n, Len(sup[c].code))
                    ELSE caller.assigned[n]]]
         ELSE [caller EXCEPT !.assigned = EmptyNamespace, !.all_ok = FALSE]

\* an exception leaves execute
Escape(c) ==
    /\ sup' = [sup EXCEPT ![c].pc = "raised"]
    /\ caller' = [caller EXCEPT !.assigned = EmptyNamespace, !.all_ok = FALSE]

(* ----------------------------- supervisor ----------------------------- *)

\* execution_thread.join(timeout): the lock wait rejects a timeout above
\* threading.TIMEOUT_MAX with OverflowError, which execute does not catch
S_JoinOverflow(c) ==
    /\ sup[c].pc = "join"
    /\ sup[c].timeout > TIMEOUT_MAX
    /\ Escape(c)
    /\ UNCHANGED << executor, global_state, execution_result, sys_stdout, out, worker,
                    ncalls, chat, hist >>

\* join(timeout) returns because the thread has ended
S_JoinDone(c) ==
    /\ sup[c].pc = "join"
    /\ sup[c].timeout <= TIMEOUT_MAX
    /\ ~is_alive(c)
    /\ sup' = [sup EXCEPT ![c].pc = "check"]
    /\ UNCHANGED << executor, global_state, execution_result, sys_stdout, out, worker,
                    ncalls, chat, hist, caller >>

\* join(timeout) returns because the timeout has passed
S_JoinExpire(c) ==
    /\ sup[c].pc = "join"
    /\ sup[c].timeout <= TIMEOUT_MAX
    /\ is_alive(c)
    /\ sup' = [sup EXCEPT ![c].pc = "check"]
    /\ UNCHANGED << executor, global_state, execution_result, sys_stdout, out, worker,
                    ncalls, chat, hist, caller >>

\* self.execution_result as execute of call c reads it
self_execution_result(c) ==
    IF sup[c].own THEN executor[c].execution_result ELSE execution_result

\* if execution_thread.is_alive(): ... else return self.execution_result or {...}
S_Check(c) ==
    /\ sup[c].pc = "check"
    /\ IF is_alive(c)
       THEN /\ sup' = [sup EXCEPT ![c].pc = "raise_exception"]
            /\ UNCHANGED caller
       ELSE Return(c, IF self_execution_result(c) # <<>>
                      THEN self_execution_result(c)[1]
                      ELSE FallbackResult)
    /\ UNCHANGED << executor, global_state, execution_result, sys_stdout, out, worker,
                    ncalls, chat, hist >>

\* raise_exception: thread_id is None when the thread has ended meanwhile;
\* res is what PyThreadState_SetAsyncExc reports
raise_exception(c, res) ==
    /\ sup[c].pc = "raise_exception"
    /\ IF ~is_alive(c)
       THEN /\ res = 0
            /\ sup' = [sup EXCEPT ![c].pc = "join2"]
            /\ hist' = Note(c, [hist[c] EXCEPT !.undelivered = TRUE])
            /\ UNCHANGED << worker, caller >>
       ELSE IF res = 1
       THEN /\ sup' = [sup EXCEPT ![c].pc = "join2"]
            /\ worker' = [worker EXCEPT ![c].async_exc = TRUE]
            /\ UNCHANGED << caller, hist >>
       ELSE /\ res > 1
            \* the pending exception is withdrawn, RuntimeError is raised
            /\ Escape(c)
            /\ hist' = Note(c, [hist[c] EXCEPT !.undelivered = TRUE])
            /\ UNCHANGED worker
    /\ UNCHANGED << executor, global_state, execution_result, sys_stdout, out, ncalls, chat >>

\* execution_thread.join(); return the timeout dict
S_Join2(c) ==
    /\ sup[c].pc = "join2"
    /\ ~is_alive(c)
    /\ Return(c, TimeoutResult)
    /\ UNCHANGED << executor, global_state, execution_result, sys_stdout, out, worker,
                    ncalls, chat, hist >>

(* ------------------------------- worker ------------------------------- *)
(* Each action is one stretch of _execute_code between two points where    *)
(* the interpreter looks for a pending asynchronous exception; a pending   *)
(* KeyboardInterrupt is raised at the start of the stretch.                *)

\* the text after call c writes to the current sys.stdout; a buffer whose
\* owner has ended is never read again
WriteTo(c) ==
    IF sys_stdout # 0 /\ is_alive(sys_stdout)
    THEN [out EXCEPT ![sys_stdout] = Append(@, c)]
    ELSE out

\* an except clause of the try block: error and output so far into result
Catch(c, err) ==
    worker' = [worker EXCEPT
                 ![c].result = [@ EXCEPT !.error = err, !.output = out[c]],
                 ![c].pc = "exit",
                 ![c].async_exc = FALSE]

\* the thread ends with an uncaught exception, outside the with block
Die(c) == worker' = [worker EXCEPT ![c] = DeadWorker]

\* self.global_state as the worker of call c reads it
self_global_state(c) ==
    IF worker[c].own THEN executor[c].global_state ELSE global_state

\* self.global_state = g in the worker of call c
SetGlobalState(c, g) ==
    IF worker[c].own
    THEN /\ executor' = [executor EXCEPT ![c].global_state = g]
         /\ UNCHANGED global_state
    ELSE /\ global_state' = g
         /\ UNCHANGED executor

\* self.execution_result = r in the worker of call c
SetExecutionResult(c, r) ==
    IF worker[c].own
    THEN /\ executor' = [executor EXCEPT ![c].execution_result = << r >>]
         /\ UNCHANGED execution_result
    ELSE /\ execution_result' = << r >>
         /\ UNCHANGED executor

\* lines 80-91: build result, security check
W_Screen(c) ==
    /\ worker[c].pc = "start"
    /\ IF worker[c].async_exc
       THEN /\ Die(c)
            /\ UNCHANGED << execution_result, executor, hist >>
       ELSE IF ~_is_code_safe(worker[c].code)
       THEN /\ SetExecutionResult(c, [NewResult EXCEPT !.error = SecurityError])
            /\ hist' = Note(c, [hist[c] EXCEPT !.stored =
                                  << [NewResult EXCEPT !.error = SecurityError] >>])
            /\ Die(c)
       ELSE /\ worker' = [worker EXCEPT ![c].pc = "enter"]
            /\ UNCHANGED << execution_result, executor, hist >>
    /\ UNCHANGED << global_state, sys_stdout, out, sup, ncalls, chat, caller >>

\* line 93 and _capture_output lines 56-60
W_Enter(c) ==
    /\ worker[c].pc = "enter"
    /\ IF worker[c].async_exc
       THEN /\ Die(c)
            /\ UNCHANGED << sys_stdout, out >>
       ELSE /\ worker' = [worker EXCEPT ![c].pc = "compile",
                                        ![c].old_out = sys_stdout]
            /\ sys_stdout' = c
            /\ out' = [out EXCEPT ![c] = <<>>]
    /\ UNCHANGED << executor, global_state, execution_result, sup, ncalls, chat, hist, caller >>

\* lines 96-102: seed the namespace, compile
W_Compile(c) ==
    /\ worker[c].pc = "compile"
    /\ IF worker[c].async_exc
       THEN Catch(c, WorkerTimedOut)
       ELSE IF CompileFails(worker[c].code)
       THEN Catch(c, "SyntaxError")
       ELSE worker' = [worker EXCEPT ![c].exec_globals = self_global_state(c),
                                     ![c].pc = "exec", ![c].ip = 1]
    /\ UNCHANGED << executor, global_state, execution_result, sys_stdout, out, sup,
                    ncalls, chat, hist, caller >>

\* line 105: exec runs the segment at ip
W_Exec(c) ==
    LET w == worker[c]
        src == worker[c].code
        seg == src[w.ip]
        next == IF w.ip + 1 > Len(src) THEN "update" ELSE "exec"
    IN
    /\ w.pc = "exec"
    /\ IF w.async_exc /\ seg.op = "loopcatch"
       THEN \* the source's own except clause takes the KeyboardInterrupt
            /\ worker' = [worker EXCEPT ![c].async_exc = FALSE]
            /\ hist' = Note(c, [hist[c] EXCEPT !.swallowed = TRUE])
            /\ UNCHANGED << sys_stdout, out >>
       ELSE IF w.async_exc
       THEN /\ Catch(c, WorkerTimedOut)
            /\ UNCHANGED << sys_stdout, out, hist >>
       ELSE
       CASE seg.op = "assign" ->
              /\ worker' = [worker EXCEPT
                              ![c].exec_globals = [@ EXCEPT ![seg.name] = seg.val],
                              ![c].ip = @ + 1, ![c].pc = next]
              /\ UNCHANGED << sys_stdout, out, hist >>
         [] seg.op = "expr" ->
              /\ IF w.exec_globals[seg.name] = Undef
                 THEN Catch(c, "NameError")
                 ELSE worker' = [worker EXCEPT ![c].ip = @ + 1, ![c].pc = next]
              /\ UNCHANGED << sys_stdout, out, hist >>
         [] seg.op = "del" ->
              /\ IF w.exec_globals[seg.name] = Undef
                 THEN Catch(c, "NameError")
                 ELSE worker' = [worker EXCEPT
                                   ![c].exec_globals = [@ EXCEPT ![seg.name] = Undef],
                                   ![c].ip = @ + 1, ![c].pc = next]
              /\ UNCHANGED << sys_stdout, out, hist >>
         [] seg.op = "print" ->
              /\ out' = WriteTo(c)
              /\ hist' = Note(c, [hist[c] EXCEPT !.wrote = Append(@, c)])
              /\ worker' = [worker EXCEPT ![c].ip = @ + 1, ![c].pc = next]
              /\ UNCHANGED sys_stdout
         [] seg.op = "raise" ->
              IF seg.name \in BaseOnly
              THEN \* not caught by `except Exception`: leaves the with block
                   /\ sys_stdout' = w.old_out
                   /\ Die(c)
                   /\ UNCHANGED << out, hist >>
              ELSE /\ Catch(c, seg.name)
                   /\ UNCHANGED << sys_stdout, out, hist >>
         [] seg.op \in {"const", "import", "call", "blank"} ->
              /\ worker' = [worker EXCEPT ![c].ip = @ + 1, ![c].pc = next]
              /\ UNCHANGED << sys_stdout, out, hist >>
         [] OTHER -> FALSE   \* "loop", "loopcatch": no progress
    /\ UNCHANGED << executor, global_state, execution_result, sup, ncalls, chat, caller >>

\* dict.update: every binding of d into g, nothing removed
update(g, d) == [n \in Names |-> IF d[n] # Undef THEN d[n] ELSE g[n]]

\* line 108
W_Update(c) ==
    /\ worker[c].pc = "update"
    /\ IF worker[c].async_exc
       THEN /\ Catch(c, WorkerTimedOut)
            /\ UNCHANGED << global_state, executor >>
       ELSE /\ SetGlobalState(c, update(self_global_state(c),
                                        worker[c].exec_globals))
            /\ worker' = [worker EXCEPT ![c].pc = "output"]
    /\ UNCHANGED << execution_result, sys_stdout, out, sup, ncalls, chat, hist,
                    caller >>

\* lines 111-112
W_Output(c) ==
    /\ worker[c].pc = "output"
    /\ IF worker[c].async_exc
       THEN Catch(c, WorkerTimedOut)
       ELSE worker' = [worker EXCEPT
                         ![c].result = [@ EXCEPT !.output = out[c],
                                                 !.success = TRUE],
                         ![c].pc = "split"]
    /\ UNCHANGED << executor, global_state, execution_result, sys_stdout, out, sup,
                    ncalls, chat, hist, caller >>

\* lines 116-117
W_Split(c) ==
    /\ worker[c].pc = "split"
    /\ IF worker[c].async_exc
       THEN Catch(c, WorkerTimedOut)
       ELSE worker' = [worker EXCEPT ![c].pc =
                         IF Len(lines(worker[c].code)) > 0 THEN "eval" ELSE "exit"]
    /\ UNCHANGED << executor, global_state, execution_result, sys_stdout, out, sup,
                    ncalls, chat, hist, caller >>

\* lines 118-122: the bare except swallows every exception raised here
W_Eval(c) ==
    LET w == worker[c]
        last == lines(worker[c].code)[Len(lines(worker[c].code))]
    IN
    /\ w.pc = "eval"
    /\ IF w.async_exc
       THEN /\ worker' = [worker EXCEPT ![c].pc = "exit", ![c].async_exc = FALSE]
            /\ UNCHANGED out
       ELSE IF ~IsExpression(last)
       THEN /\ worker' = [worker EXCEPT ![c].pc = "exit"]
            /\ UNCHANGED out
       ELSE
       CASE last.op = "expr" ->
              /\ worker' = [worker EXCEPT
                              ![c].pc = "exit",
                              ![c].result = IF w.exec_globals[last.name] = Undef
                                            THEN @
                                            ELSE [@ EXCEPT !.result =
                                                    w.exec_globals[last.name]]]
              /\ UNCHANGED out
         [] last.op = "const" ->
              /\ worker' = [worker EXCEPT ![c].pc = "exit",
                                          ![c].result = [@ EXCEPT !.result = last.val]]
              /\ UNCHANGED out
         [] last.op = "print" ->
              \* the call is made a second time; print returns None
              /\ out' = WriteTo(c)
              /\ worker' = [worker EXCEPT ![c].pc = "exit"]
         [] OTHER ->
              /\ worker' = [worker EXCEPT ![c].pc = "exit"]
              /\ UNCHANGED out
    /\ UNCHANGED << executor, global_state, execution_result, sys_stdout, sup, ncalls, chat,
                    hist, caller >>

\* end of the with block: _capture_output line 62
W_Exit(c) ==
    /\ worker[c].pc = "exit"
    /\ sys_stdout' = worker[c].old_out
    /\ IF worker[c].async_exc
       THEN Die(c)
       ELSE worker' = [worker EXCEPT ![c].pc = "store"]
    /\ UNCHANGED << executor, global_state, execution_result, out, sup, ncalls, chat, hist,
                    caller >>

\* lines 131-133
W_Store(c) ==
    LET w == worker[c]
        \* a pending KeyboardInterrupt, or an exception of the normaliser,
        \* ends the thread before line 133
        stores == /\ ~w.async_exc
                  /\ \/ is_json_serializable(w.result)
                     \/ make_json_serializable(w.result).result # Raises
        value == IF is_json_serializable(w.result) THEN w.result
                 ELSE make_json_serializable(w.result)
    IN
    /\ w.pc = "store"
    /\ IF stores
       THEN /\ SetExecutionResult(c, value)
            /\ hist' = Note(c, [hist[c] EXCEPT !.stored = << value >>])
       ELSE UNCHANGED << execution_result, executor, hist >>
    /\ Die(c)
    /\ UNCHANGED << global_state, sys_stdout, out, sup, ncalls, chat, caller >>

(* ---------------------------- specification --------------------------- *)

\* the steps of the supervisors and workers of the calls in progress
Step ==
    \/ \E c \in Calls : S_JoinOverflow(c)
    \/ \E c \in Calls : S_JoinDone(c)
    \/ \E c \in Calls : S_JoinExpire(c)
    \/ \E c \in Calls : S_Check(c)
    \/ \E c \in Calls, res \in 0..2 : raise_exception(c, res)
    \/ \E c \in Calls : S_Join2(c)
    \/ \E c \in Calls : W_Screen(c)
    \/ \E c \in Calls : W_Enter(c)
    \/ \E c \in Calls : W_Compile(c)
    \/ \E c \in Calls : W_Exec(c)
    \/ \E c \in Calls : W_Update(c)
    \/ \E c \in Calls : W_Output(c)
    \/ \E c \in Calls : W_Split(c)
    \/ \E c \in Calls : W_Eval(c)
    \/ \E c \in Calls : W_Exit(c)
    \/ \E c \in Calls : W_Store(c)

\* one caller: execute and reset_state one after another on one instance
Next ==
    \/ \E c \in Calls, src \in Sources, t \in Timeouts : S_Start(c, src, t)
    \/ reset_state
    \/ Step

Spec == Init /\ [][Next]_vars

\* the sources given to execute_python_code
EntrySources == { SrcAssign, SrcName, SrcPrintLast, SrcExit }

\* one caller: execute_python_code, one call after another
NextEntry ==
    \/ \E c \in Calls, src \in EntrySources, t \in Timeouts :
           E_Call(c, src, t)
    \/ Step

SpecEntry == Init /\ [][NextEntry]_vars

\* the source each thread of the concurrent host runs
ConcSource(c) == IF c = 1 THEN SrcHello ELSE SrcPrintLast

\* their timeout arguments: None and one the lock wait accepts
ConcTimeouts == {0, TIMEOUT_MAX}

\* several threads of the host call execute without waiting for each other
NextConc ==
    \/ \E c \in Calls, t \in ConcTimeouts, own \in BOOLEAN :
           T_Start(c, ConcSource(c), t, own)
    \/ Step

SpecConc == Init /\ [][NextConc]_vars

(* ----------------------- the normaliser on its own --------------------- *)

\* values without items: None, 1, 'a', b'a', b'\xff', 1+2j, numpy.array([1, 2]),
\* numpy.int64(1), an instance of a class of the program
Leaves == { PyNone, PyInt(1), PyStr(<<97>>), PyBytes(<<97>>), PyBytes(<<255>>),
            PyComplex(1, 2), PyArray(<<1, 2>>), PyGeneric(1), PyObject(<<111>>) }

\* the leaves that can be items of a set and keys of a dict
Hashables == Leaves \ { PyArray(<<1, 2>>) }

\* containers of one leaf; the keys of the dicts include the tuple (1,)
Flat ==
    { PyList(<<v>>) : v \in Leaves } \cup { PyTuple(<<v>>) : v \in Leaves }
    \cup { PySet(<<v>>) : v \in Hashables }
    \cup { PyDict(<< <<k, v>> >>) :
             k \in Hashables \cup { PyTuple(<<PyInt(1)>>) },
             v \in { PyInt(1), PyBytes(<<255>>) } }

\* a set inside a list and inside a dict
Nested ==
    { PyList(<< PySet(<<v>>) >>) : v \in Hashables }
    \cup { PyDict(<< << PyStr(<<107>>), PySet(<<v>>) >> >>) : v \in Hashables }

Shapes == Leaves \cup Flat \cup Nested

\* a worker that has run the source `v` and left the with block
AtStore(v) ==
    [BlankWorker EXCEPT !.pc = "store", !.code = << Seg("const", "", v) >>,
                        !.ip = 2,
                        !.result = [NewResult EXCEPT !.success = TRUE,
                                                     !.result = v]]

\* call 1 is in progress, its worker is about to run lines 131-133 on a
\* result dict that holds one of the shapes
InitNorm ==
    /\ global_state = EmptyNamespace
    /\ execution_result = <<>>
    /\ sys_stdout = 0
    /\ out = [c \in Calls |-> <<>>]
    /\ executor = [c \in Calls |-> NewExecutor]
    /\ ncalls = 1
    /\ hist = [c \in Calls |-> BlankHist]
    /\ caller = InitCaller
    /\ chat = InitChat
    /\ \E v \in Shapes :
          /\ sup = [c \in Calls |->
                      IF c = 1
                      THEN [BlankSup EXCEPT !.pc = "join",
                                            !.code = << Seg("const", "", v) >>,
                                            !.timeout = TIMEOUT_MAX]
                      ELSE BlankSup]
          /\ worker = [c \in Calls |-> IF c = 1 THEN AtStore(v) ELSE BlankWorker]

NextNorm == \E c \in Calls : W_Store(c)

SpecNorm == InitNorm /\ [][NextNorm]_vars

(* ----------------------- chat_loop (src/LM_tools.py) ------------------- *)

\* number of requests chat_loop sends to the model
MaxRequests == 2

\* the function names declared in Tools
Tools == {"python", "web", "wiki", "url"}

\* timeout: int = 5 of execute_python_code, a timeout the lock wait accepts
DefaultTimeout == TIMEOUT_MAX

\* what the user types, as code points: 'quit', ' Quit ', 'hi'
Inputs == { <<113, 117, 105, 116>>, <<32, 81, 117, 105, 116, 32>>, <<104, 105>> }

\* str.strip: the spaces at both ends removed
RECURSIVE strip(_)
strip(s) ==
    IF s # <<>> /\ Head(s) = 32 THEN strip(Tail(s))
    ELSE IF s # <<>> /\ s[Len(s)] = 32 THEN strip(SubSeq(s, 1, Len(s) - 1))
    ELSE s

\* str.lower
lower(s) == [k \in 1..Len(s) |-> IF s[k] \in 65..90 THEN s[k] + 32 ELSE s[k]]

\* str(result): the text Python gives for the value, kept as one piece
str(v) == PyStr(<< v >>)

\* the messages chat_loop appends; a key a message does not have is empty
UserMsg(text) ==
    [role |-> "user", content |-> PyStr(text), tool_calls |-> <<>>,
     tool_call_id |-> ""]

AssistantMsg(text) ==
    [role |-> "assistant", content |-> text, tool_calls |-> <<>>,
     tool_call_id |-> ""]

AssistantCalls(tool_calls) ==
    [role |-> "assistant", content |-> "", tool_calls |-> tool_calls,
     tool_call_id |-> ""]

ToolMsg(content, id) ==
    [role |-> "tool", content |-> content, tool_calls |-> <<>>,
     tool_call_id |-> id]

(* the stream of a response: chunks whose delta has content or tool_calls;  *)
(* None is the empty string, an absent list the empty sequence              *)

Content(text) == [content |-> text, tool_calls |-> <<>>]

Delta(index, id, name, arguments) ==
    [content |-> "",
     tool_calls |-> << [index |-> index, id |-> id, name |-> name,
                        arguments |-> arguments] >>]

\* lines 107-120 on the deltas of one chunk; tool_calls[tc.index] raises
\* IndexError when the index is past the entry just appended
RECURSIVE MergeDeltas(_, _)
MergeDeltas(acc, tcs) ==
    IF tcs = <<>> \/ acc.raised THEN acc
    ELSE LET tc == Head(tcs)
             grown == IF Len(acc.tool_calls) <= tc.index
                      THEN Append(acc.tool_calls,
                                  [id |-> "", name |-> "", arguments |-> ""])
                      ELSE acc.tool_calls
         IN  IF tc.index + 1 > Len(grown)
             THEN [acc EXCEPT !.raised = TRUE]
             ELSE MergeDeltas(
                      [acc EXCEPT !.tool_calls =
                          [grown EXCEPT ![tc.index + 1] =
                              [id |-> @.id \o tc.id,
                               name |-> @.name \o tc.name,
                               arguments |-> @.arguments \o tc.arguments]]],
                      Tail(tcs))

\* the loop of lines 92-120 on the chunks that are left
RECURSIVE Collect(_, _)
Collect(acc, stream) ==
    IF stream = <<>> \/ acc.raised THEN acc
    ELSE LET delta == Head(stream)
         IN  Collect(IF delta.content # ""
                     THEN [acc EXCEPT !.collected_text = @ \o delta.content]
                     ELSE MergeDeltas(acc, delta.tool_calls),
                     Tail(stream))

process_stream(stream) ==
    Collect([collected_text |-> "", tool_calls |-> <<>>, raised |-> FALSE],
            stream)

\* the argument texts the model sends: for python, for wiki and (without the
\* second key) for web, for wiki with the key line 196 reads, for web, for
\* url, and a text cut off before its end
ArgCode == "{\"code\": \"print('hello'); 2+2\\n\"}"

ArgQuery == "{\"query\": \"q\"}"

ArgQyery == "{\"query\": \"q\", \"qyery\": \"q\"}"

ArgSearch == "{\"query\": \"q\", \"embedding_matcher\": \"m\"}"

ArgUrl == "{\"url\": \"u\"}"

ArgCut == "{\"code\": \"print("

\* json.loads: the keys of the object and the source under "code"; raised
\* when the text is no JSON document (JSONDecodeError)
json_loads(s) ==
    CASE s = ArgCode -> [raised |-> FALSE, keys |-> {"code"}, code |-> SrcHello]
      [] s = ArgQuery -> [raised |-> FALSE, keys |-> {"query"}, code |-> NoSource]
      [] s = ArgQyery ->
           [raised |-> FALSE, keys |-> {"query", "qyery"}, code |-> NoSource]
      [] s = ArgSearch ->
           [raised |-> FALSE, keys |-> {"query", "embedding_matcher"},
            code |-> NoSource]
      [] s = ArgUrl -> [raised |-> FALSE, keys |-> {"url"}, code |-> NoSource]
      [] OTHER -> [raised |-> TRUE, keys |-> {}, code |-> NoSource]

\* the tool calls the model makes: the four declared names with arguments of
\* their schema, wiki also with the misspelt key, web also without its second
\* key, and the name the dispatch of line 167 knows
Offered ==
    { [name |-> "python", arguments |-> ArgCode],
      [name |-> "web", arguments |-> ArgSearch],
      [name |-> "web", arguments |-> ArgQuery],
      [name |-> "wiki", arguments |-> ArgQuery],
      [name |-> "wiki", arguments |-> ArgQyery],
      [name |-> "url", arguments |-> ArgUrl],
      [name |-> "run_python_code", arguments |-> ArgCode],
      [name |-> "run_python_code", arguments |-> ArgCut] }

\* the id the server gives the j-th tool call of its k-th response
CallId(k, j) == "call_" \o ToString(k) \o "_" \o ToString(j)

\* the chunks of tool call j: id and name first, the arguments after
CallChunks(k, j, o) ==
    << Delta(j, CallId(k, j), o.name, ""), Delta(j, "", "", o.arguments) >>

\* the streams of the k-th response: text in two chunks, one tool call, text
\* and one tool call, two tool calls
Streams(k) ==
    { << Content("Hi"), Content("!") >> }
    \cup { CallChunks(k, 0, o) : o \in Offered }
    \cup { << Content("ok") >> \o CallChunks(k, 0, o) : o \in Offered }
    \cup { CallChunks(k, 0, o) \o CallChunks(k, 1, p) : o \in Offered, p \in Offered }

\* bool(v)
Truthy(v) ==
    CASE v.kind = "none" -> FALSE
      [] v.kind = "int" -> v.elems[1] # 0
      [] OTHER -> Len(v.elems) > 0

\* 'error' as code points
ErrorKey == PyStr(<<101, 114, 114, 111, 114>>)

\* v['error'] gives a value: v is a dict that has the key
HasError(v) ==
    v.kind = "dict" /\ \E k \in 1..Len(v.elems) : v.elems[k][1] = ErrorKey

\* what fetch_wikipedia_content gives: a text, None, or it raises
WikiResults == { PyStr(<<87>>), PyNone, Raises }

\* what text_search gives: a list of citations, an empty list, a dict with
\* the key 'error', or it raises
WebResults == { PyList(<< PyStr(<<87>>) >>), PyList(<<>>),
                PyDict(<< << ErrorKey, PyStr(<<87>>) >> >>), Raises }

\* the tool call the for loop of line 164 is at, and its arguments
tool_call == chat.tool_calls[chat.i]

arguments == json_loads(tool_call.arguments)

\* an exception leaves chat_loop
Raised(ch) == [ch EXCEPT !.pc = "raised"]

\* messages.append of a tool message for the tool call
Answered(ch, result) ==
    [ch EXCEPT !.messages = Append(@, ToolMsg(str(result), tool_call.id))]

\* the end of one pass of the for loop: the next tool call, or line 221 and
\* back to line 137 (tool_calls is assigned anew there before it is read)
Advance(ch) ==
    IF ch.i < Len(ch.tool_calls)
    THEN [ch EXCEPT !.i = @ + 1]
    ELSE [ch EXCEPT !.pc = "request", !.i = 0, !.tool_calls = <<>>]

\* lines 128-133
C_Input(user_input) ==
    /\ chat.pc = "input"
    /\ chat' = IF lower(strip(user_input)) = <<113, 117, 105, 116>>
               THEN [chat EXCEPT !.pc = "quit"]
               ELSE [chat EXCEPT !.messages = Append(@, UserMsg(strip(user_input))),
                                 !.pc = "request"]
    /\ UNCHANGED engine

\* lines 137-161: the k-th request, process_stream on its stream, the
\* assistant messages
C_Request(k, stream) ==
    LET r == process_stream(stream)
        with_text == IF r.collected_text # ""
                     THEN Append(chat.messages, AssistantMsg(r.collected_text))
                     ELSE chat.messages
    IN
    /\ chat.pc = "request"
    /\ k = chat.requests + 1
    /\ chat' = IF r.raised THEN Raised(chat)
               ELSE IF r.tool_calls = <<>>
               THEN [chat EXCEPT !.messages = with_text, !.pc = "input",
                                 !.requests = @ + 1]
               ELSE [chat EXCEPT
                       !.messages = Append(with_text, AssistantCalls(r.tool_calls)),
                       !.tool_calls = r.tool_calls, !.i = 1, !.pc = "for",
                       !.requests = @ + 1]
    /\ UNCHANGED engine

\* line 165: json.loads raises
C_BadArguments ==
    /\ chat.pc = "for"
    /\ arguments.raised
    /\ chat' = Raised(chat)
    /\ UNCHANGED engine

\* lines 167-168: python(arguments["code"]) is entered
C_RunPython ==
    /\ chat.pc = "for"
    /\ ~arguments.raised
    /\ tool_call.name = "run_python_code"
    /\ IF "code" \notin arguments.keys
       THEN /\ chat' = Raised(chat)
            /\ UNCHANGED engine
       ELSE /\ \E c \in Calls :
                  execute_python_code(c, arguments.code, DefaultTimeout)
            /\ chat' = [chat EXCEPT !.pc = "python"]

\* lines 168-185: python returns a dict; the four keys the prints read are in
\* every dict execute returns
C_PythonReturns ==
    /\ chat.pc = "python"
    /\ sup[ncalls].pc = "returned"
    /\ chat' = Advance(Answered(chat, sup[ncalls].ret[1]))
    /\ UNCHANGED engine

\* line 168: an exception leaves execute
C_PythonRaises ==
    /\ chat.pc = "python"
    /\ sup[ncalls].pc = "raised"
    /\ chat' = Raised(chat)
    /\ UNCHANGED engine

\* lines 187-202: arguments["qyery"] at line 196 and result['error'] at line
\* 201 raise after the tool message has been appended
C_Wiki(result) ==
    /\ chat.pc = "for"
    /\ ~arguments.raised
    /\ tool_call.name = "wiki"
    /\ chat' = IF "query" \notin arguments.keys \/ result = Raises
               THEN Raised(chat)
               ELSE IF "qyery" \notin arguments.keys \/ ~Truthy(result)
               THEN Raised(Answered(chat, result))
               ELSE Advance(Answered(chat, result))
    /\ UNCHANGED engine

\* lines 204-218: result['error'] at line 217 is read when result is truthy
C_Web(result) ==
    /\ chat.pc = "for"
    /\ ~arguments.raised
    /\ tool_call.name = "web"
    /\ chat' = IF \/ "query" \notin arguments.keys
                  \/ "embedding_matcher" \notin arguments.keys
                  \/ result = Raises
               THEN Raised(chat)
               ELSE IF Truthy(result) /\ ~HasError(result)
               THEN Raised(Answered(chat, result))
               ELSE Advance(Answered(chat, result))
    /\ UNCHANGED engine

\* no branch of lines 167-218 has the name: nothing is done for the tool call
C_NoBranch ==
    /\ chat.pc = "for"
    /\ ~arguments.raised
    /\ tool_call.name \notin {"run_python_code", "wiki", "web"}
    /\ chat' = Advance(chat)
    /\ UNCHANGED engine

\* chat_loop, and the supervisor and worker of the call python makes; the
\* default timeout is one the lock wait accepts
NextChat ==
    \/ \E user_input \in Inputs : C_Input(user_input)
    \/ \E k \in 1..MaxRequests : \E stream \in Streams(k) : C_Request(k, stream)
    \/ C_BadArguments
    \/ C_RunPython
    \/ C_PythonReturns
    \/ C_PythonRaises
    \/ \E result \in WikiResults : C_Wiki(result)
    \/ \E result \in WebResults : C_Web(result)
    \/ C_NoBranch
    \/ \E c \in Calls : S_JoinDone(c)
    \/ \E c \in Calls : S_JoinExpire(c)
    \/ \E c \in Calls : S_Check(c)
    \/ \E c \in Calls, res \in 0..2 : raise_exception(c, res)
    \/ \E c \in Calls : S_Join2(c)
    \/ \E c \in Calls : W_Screen(c)
    \/ \E c \in Calls : W_Enter(c)
    \/ \E c \in Calls : W_Compile(c)
    \/ \E c \in Calls : W_Exec(c)
    \/ \E c \in Calls : W_Update(c)
    \/ \E c \in Calls : W_Output(c)
    \/ \E c \in Calls : W_Split(c)
    \/ \E c \in Calls : W_Eval(c)
    \/ \E c \in Calls : W_Exit(c)
    \/ \E c \in Calls : W_Store(c)

SpecChat == Init /\ [][NextChat]_vars

(* ------------------------------- claims ------------------------------- *)

Returned(c) == sup[c].pc = "returned"

Ret(c) == sup[c].ret[1]

\* the source loops indefinitely once it runs
Loops(src) == \E i \in 1..Len(src) : src[i].op = "loop"

\* the value of the last segment as an expression in the namespace the
\* source leaves behind when it starts from ns; PyNone if it has none
ExpectedResult(src, ns) ==
    LET last == IF lines(src) = <<>> THEN Seg("blank", "", PyNone)
                ELSE lines(src)[Len(lines(src))]
        after(n) == IF LastAssign(src, n, Len(src)) # Undef
                    THEN LastAssign(src, n, Len(src)) ELSE ns[n]
    IN  IF last.op = "const" THEN last.val
        ELSE IF last.op = "expr" /\ after(last.name) # Undef THEN after(last.name)
        ELSE PyNone

\* C1: a call that returns success=false leaves global_state as it was when
\* the call was issued.
C1_FailureLeavesState ==
    \A c \in Calls :
        (Returned(c) /\ ~Ret(c).success /\ ~hist[c].overlap)
            => global_state = hist[c].pre_state

\* C2: a source that matches a blocklist rule is answered with the
\* SecurityError result (success=false, empty output, null result), its
\* worker never gets past the screen (no redirection, no compile, no run) and
\* global_state is as it was when the call was issued.
C2_BlockedRejected ==
    /\ \A c \in Calls :
          (Ended(c) /\ ~_is_code_safe(sup[c].code)) =>
             /\ Returned(c)
             /\ Ret(c) = [NewResult EXCEPT !.error = SecurityError]
             /\ global_state = hist[c].pre_state
    /\ \A c \in Calls :
          (is_alive(c) /\ ~_is_code_safe(worker[c].code)) => worker[c].pc = "start"

\* C3 (its safety part): a call with a looping source and a positive timeout
\* that has ended has returned the timeout result.
C3_LoopEndsInTimeout ==
    \A c \in Calls :
        (Ended(c) /\ Loops(sup[c].code) /\ _is_code_safe(sup[c].code)
                  /\ sup[c].timeout # inf) =>
            (Returned(c) /\ Ret(c).success = FALSE /\ Ret(c).error = TimedOutAfter)

\* C4: a call that returns a timeout or a runtime error returns as output the
\* text its source had written.
C4_OutputKeptOnFailure ==
    \A c \in Calls :
        (Returned(c) /\ ~hist[c].overlap
            /\ Ret(c).error \in {TimedOutAfter, "ZeroDivisionError", "NameError"})
            => Ret(c).output = hist[c].wrote

\* C5: no exception leaves execute.
C5_NoEscape == \A c \in Calls : sup[c].pc # "raised"

\* C6: while every call so far returned success, each name holds in
\* global_state the value most recently assigned to it.
C6_Persistence ==
    (Idle /\ caller.all_ok) =>
        \A n \in Names :
            caller.assigned[n] # Undef => global_state[n] = caller.assigned[n]

\* C7: the first call after reset_state that references a name the reset
\* dropped returns success=false with NameError.
C7_ResetForgets ==
    \A c \in Calls :
        (Ended(c) /\ sup[c].code = SrcName /\ "x" \in hist[c].reset_names) =>
            (Returned(c) /\ ~Ret(c).success /\ Ret(c).error = "NameError")

\* C8: a source that passes the screen and does not compile is answered with
\* success=false and SyntaxError, nothing of it runs and global_state is as it
\* was when the call was issued.
C8_SyntaxInvalid ==
    /\ \A c \in Calls :
          (Ended(c) /\ _is_code_safe(sup[c].code) /\ CompileFails(sup[c].code)) =>
             /\ Returned(c)
             /\ ~Ret(c).success
             /\ Ret(c).error = "SyntaxError"
             /\ hist[c].wrote = <<>>
             /\ global_state = hist[c].pre_state
    /\ \A c \in Calls :
          (is_alive(c) /\ CompileFails(worker[c].code)) =>
             worker[c].pc \in {"start", "enter", "compile", "exit", "store"}

\* C9: a call that returns success=true returns as output the text the one
\* run of its source wrote and as result the value of its last segment
\* (null if the segment is no expression or its evaluation raises).
C9_SuccessOutputAndResult ==
    \A c \in Calls :
        (Returned(c) /\ Ret(c).success /\ ~hist[c].overlap) =>
            /\ Ret(c).output = hist[c].wrote
            /\ Ret(c).result = ExpectedResult(sup[c].code, hist[c].pre_state)

\* C10: in every returned result success=true goes with error null and
\* success=false with an error.
C10_Consistent ==
    \A c \in Calls :
        (Returned(c) /\ ~hist[c].overlap)
            => (Ret(c).success <=> Ret(c).error = NoError)

\* the items of a container value, as a set
Items(v) == {v.elems[i] : i \in 1..Len(v.elems)}

\* C11: normalising a set gives a list that holds exactly the items of the
\* set, each once; a call whose source ends in a set expression and that
\* returns success, with no worker of an earlier call alive beside it,
\* returns that list as result.
C11_SetBecomesList ==
    \A c \in Calls :
        LET s == ExpectedResult(sup[c].code, hist[c].pre_state)
        IN  (Returned(c) /\ Ret(c).success /\ ~hist[c].overlap /\ s.kind = "set") =>
               /\ make_json_serializable_value(s).kind = "list"
               /\ Items(make_json_serializable_value(s)) = Items(s)
               /\ Len(make_json_serializable_value(s).elems) = Cardinality(Items(s))
               /\ Ret(c).result = make_json_serializable_value(s)
               /\ Ret(c).result.kind = "list"
               /\ Items(Ret(c).result) = Items(s)
               /\ Len(Ret(c).result.elems) = Cardinality(Items(s))

C11_Witness ==
    \E c \in Calls :
        /\ Returned(c) /\ Ret(c).success /\ ~hist[c].overlap
        /\ sup[c].code = SrcSet
        /\ Ret(c).result = PyList(<<PyInt(1), PyInt(2), PyInt(3)>>)

\* the source unbinds the name and does not bind it again
Deletes(src, n) ==
    \E i \in 1..Len(src) :
        /\ src[i].op = "del" /\ src[i].name = n
        /\ \A j \in (i + 1)..Len(src) : ~(src[j].op = "assign" /\ src[j].name = n)

\* C12: after a call that returns success, a name its source deleted is not
\* bound in global_state.
C12_DeletedNameUnbound ==
    \A c \in Calls : \A n \in Names :
        (Returned(c) /\ Ret(c).success /\ ~hist[c].overlap
            /\ Deletes(sup[c].code, n))
            => global_state[n] = Undef

\* some step of the worker of call c
WorkerStep(c) ==
    \/ W_Screen(c) \/ W_Enter(c) \/ W_Compile(c) \/ W_Exec(c) \/ W_Update(c)
    \/ W_Output(c) \/ W_Split(c) \/ W_Eval(c) \/ W_Exit(c) \/ W_Store(c)

\* C13: a call whose deadline has expired and whose interrupt has been sent
\* is never held for good by its worker: execute can return the timeout
\* result, or the worker can still take a step towards its end.
C13_TimedOutReturns ==
    \A c \in Calls :
        sup[c].pc = "join2" => (ENABLED S_Join2(c) \/ ENABLED WorkerStep(c))

\* C14: a call whose interrupt could not be delivered (the worker had ended
\* between the liveness check and the delivery, or the delivery reported
\* more than one thread state) returns a result, and the result reports an
\* error that is not the timeout.
C14_UndeliveredReported ==
    \A c \in Calls :
        (Ended(c) /\ hist[c].undelivered) =>
            /\ Returned(c)
            /\ ~Ret(c).success
            /\ Ret(c).error # TimedOutAfter

\* C15: the result a call returns is the one its own worker stored, or the
\* timeout or no-result dict its supervisor built; when its worker stored
\* nothing it is one of the latter two.
C15_OwnResult ==
    \A c \in Calls :
        (Returned(c) /\ ~hist[c].overlap) =>
            \/ hist[c].stored # <<>> /\ Ret(c) = hist[c].stored[1]
            \/ Ret(c) \in {TimeoutResult, FallbackResult}

\* C16: when a call has returned, sys.stdout and sys.stderr are the streams
\* that were in effect when the call was issued; with no worker running any
\* more they are the original streams of the process.
C16_StreamsRestored ==
    \A c \in Calls :
        Returned(c) =>
            /\ sys_stdout = hist[c].pre_stdout
            /\ (\A d \in Calls : ~is_alive(d)) => sys_stdout = 0

\* C17: the worker of a call that has returned has terminated, and while a
\* call runs no worker of an earlier call is alive.
C17_OneInFlight ==
    /\ \A c \in Calls : Returned(c) => ~is_alive(c)
    /\ \A c \in Calls : \A d \in Calls :
          (c < d /\ InFlight(d)) => ~is_alive(c)

\* C18: when two calls that ran at the same time have both returned, each
\* successful one returns as output the text its own source wrote, each one
\* whose worker stored a result before the deadline returns that result, and
\* with no worker running any more sys.stdout and sys.stderr are the original
\* streams.
C18_OwnChannel ==
    \A c \in Calls : \A d \in Calls :
        (c # d /\ Returned(c) /\ Returned(d)) =>
            /\ \A e \in {c, d} :
                  /\ Ret(e).success => Ret(e).output = hist[e].wrote
                  /\ (hist[e].stored # <<>> /\ Ret(e).error # TimedOutAfter)
                        => Ret(e) = hist[e].stored[1]
            /\ (\A e \in Calls : ~is_alive(e)) => sys_stdout = 0

\* C19: a worker that has run lines 131-133 on a result of one of the shapes
\* has stored a result, and json.dumps accepts what it stored.
C19_StoredIsJson ==
    \A c \in Calls :
        (sup[c].pc = "join" /\ worker[c].pc = "dead") =>
            /\ hist[c].stored # <<>>
            /\ is_json_serializable(hist[c].stored[1])

\* C20: a call through execute_python_code runs on an instance of its own:
\* its worker starts from an empty global_state, a success it returns carries
\* the value its source has in an empty namespace, and the source `x` is
\* answered with success=false and NameError (or with the timeout when its
\* deadline passed first), whatever the calls before it bound.
C20_FreshPerCall ==
    \A c \in Calls :
        sup[c].own =>
            /\ worker[c].pc \in {"start", "enter", "compile"}
                  => executor[c].global_state = EmptyNamespace
            /\ (Returned(c) /\ Ret(c).success)
                  => Ret(c).result = ExpectedResult(sup[c].code, EmptyNamespace)
            /\ (Returned(c) /\ sup[c].code = SrcName) =>
                  /\ ~Ret(c).success
                  /\ Ret(c).error \in {"NameError", TimedOutAfter}

C20_Witness ==
    \E c \in Calls :
        /\ sup[c].own /\ Returned(c) /\ sup[c].code = SrcName
        /\ "x" \in hist[c].bound_before
        /\ Ret(c).error = "NameError"

\* the tool calls of the assistant tool_calls messages of a transcript
ToolCallsOf(msgs) ==
    UNION { { msgs[k].tool_calls[j] : j \in 1..Len(msgs[k].tool_calls) } :
            k \in { m \in 1..Len(msgs) : msgs[m].role = "assistant" } }

\* the tool messages of a transcript that carry the id
AnswersTo(msgs, id) ==
    { k \in 1..Len(msgs) : msgs[k].role = "tool" /\ msgs[k].tool_call_id = id }

\* C21: when chat_loop is about to send a request to the model, the
\* transcript holds, for every tool call of its assistant tool_calls messages
\* whose name is declared in Tools, exactly one tool message with the id of
\* the call.
C21_ToolCallsAnswered ==
    chat.pc = "request" =>
        \A tc \in ToolCallsOf(chat.messages) :
            tc.name \in Tools =>
                Cardinality(AnswersTo(chat.messages, tc.id)) = 1

====
